---- MODULE Spec2Model ----
(***************************************************************************)
(* Hardware-bound signing identity of the LensMint camera:                 *)
(* hardware-camera-app/hardware_identity.py.                               *)
(*                                                                         *)
(* The state is the two salt files with their permissions, the host's      *)
(* hardware identifiers and library capabilities, the module-level         *)
(* _hardware_identity of every process, and for every caller (a thread of  *)
(* a process) its position inside get_hardware_identity / HardwareIdentity *)
(* construction together with its locals.                                  *)
(***************************************************************************)
EXTENDS Integers, Sequences, FiniteSets, TLC

\* ---------------------------------------------------------------- bounds
NumProcs == 2        \* operating-system processes sharing the salt files
NumThreads == 2      \* threads of one process sharing _hardware_identity
NumSalts == 2        \* distinct 32-byte values os.urandom can yield
NumNonces == 2       \* distinct ECDSA nonces a signing call can draw

\* ------------------------------------------------------------- constants
SaltLen == 32        \* len(salt) == 32, os.urandom(32)

Procs == 1..NumProcs
Threads == 1..NumThreads
Callers == Procs \X Threads
ProcOf(c) == c[1]
Salts == 1..NumSalts
Nonces == 1..NumNonces

\* One single-threaded process.
Main == <<1, 1>>
\* The OS processes, each with its main thread only.
ProcCallers == {c \in Callers : c[2] = 1}
\* The threads of process 1.
ThreadCallers == {c \in Callers : c[1] = 1}

Paths == {"primary", "backup"}      \* SALT_PATH, SALT_BACKUP_PATH

\* camera_id values: None, the empty string, two non-empty strings.
NoneId == "None"
CameraIds == {NoneId, "", "camA", "camB"}
\* The camera id the racing processes are started with (get_hardware_identity()
\* as in export_key.py line 19), and the ids racing threads pass.
ProcCameraIds == {NoneId}
ThreadCameraIds == {NoneId, "camA"}

VARIABLES
    fs,         \* fs[path]: the salt file at path and what this user may do to it
    env,        \* host: hardware identifier sources and library capabilities
    registry,   \* registry[p]: module global _hardware_identity of process p
    pc,         \* pc[c]: position of caller c
    camera,     \* camera[c]: camera_id argument of c's current call
    salt,       \* salt[c]: local variable salt of _get_or_create_salt
    obj,        \* obj[c]: the object under construction / just constructed
    ret,        \* ret[c]: value returned to c by its last completed call
    hist,       \* hist[c]: what c's current call has done so far (observations)
    made,       \* the salt last created and returned by _get_or_create_salt
                \* (observation)
    out,        \* out[c]: result of c's last operation on an object
    script,     \* the run of export_key.py in process 1: its position and locals
    keyfile     \* the export file (.device_key_export)

vars == <<fs, env, registry, pc, camera, salt, obj, ret, hist, made, out,
          script, keyfile>>


\* ----------------------------------------------------------- byte strings
\* bytes and str values are sequences of small integers: a byte is 0..255, a
\* character is its code, the hex digits '0'..'f' being the codes 0..15.
RECURSIVE Join(_, _)
\* sep.join(parts)
Join(parts, sep) ==
    IF parts = <<>> THEN <<>>
    ELSE IF Len(parts) = 1 THEN parts[1]
    ELSE parts[1] \o sep \o Join(Tail(parts), sep)

\* One-byte markers of the symbolic encodings below.
Mark(name) ==
    CASE name = "camera:"  -> <<99, 58>>
      [] name = "serial:"  -> <<115, 58>>
      [] name = "mac:"     -> <<109, 58>>
      [] name = "machine:" -> <<77, 58>>
      [] name = "|"        -> <<124>>
      [] name = "sha256"   -> <<200>>
      [] name = "sha1"     -> <<201>>
      [] name = "keccak"   -> <<202>>
      [] name = "pub"      -> <<203>>
      [] name = "sig"      -> <<204>>
      [] name = "x"        -> <<120>>

\* str.encode('utf-8') of a camera id.
CamBytes(cam) ==
    CASE cam = "camA" -> <<65>>
      [] cam = "camB" -> <<66>>
      [] OTHER        -> <<>>

\* The 32 bytes of salt value v.
SaltBytes(v) == <<v>>

\* hashlib.sha256(b).digest(): an ideal (injective) hash.
Sha256(b) == Mark("sha256") \o b
\* The hash SigningKey.sign / VerifyingKey.verify apply to their data
\* argument (the key's default hashfunc, sha1).
Sha1(b) == Mark("sha1") \o b
\* keccak_256 of b.
Keccak256(b) == Mark("keccak") \o b

RECURSIVE Hex(_)
\* bytes.hex(): two hex digits per byte.
Hex(b) ==
    IF b = <<>> THEN <<>>
    ELSE <<b[1] \div 16, b[1] % 16>> \o Hex(Tail(b))

IsHexDigit(ch) == ch \in 0..15

\* bytes.fromhex(s) succeeds (whitespace aside) iff s is an even number of
\* hex digits.
HexValid(s) == Len(s) % 2 = 0 /\ \A i \in 1..Len(s) : IsHexDigit(s[i])
RECURSIVE FromHex(_)
\* The byte of each pair of hex digits.
FromHex(s) ==
    IF Len(s) < 2 THEN <<>>
    ELSE <<16 * s[1] + s[2]>> \o FromHex(SubSeq(s, 3, Len(s)))

RECURSIVE Strip0x(_)
\* s.replace('0x', ''): every occurrence of "0x" removed, left to right.
Strip0x(s) ==
    IF Len(s) < 2 THEN s
    ELSE IF s[1] = 0 /\ s[2] = Mark("x")[1] THEN Strip0x(SubSeq(s, 3, Len(s)))
    ELSE <<s[1]>> \o Strip0x(Tail(s))

RECURSIVE Utf8(_)
\* str.encode('utf-8'): the byte of each (ASCII) character.
Utf8(s) ==
    IF s = <<>> THEN <<>>
    ELSE <<IF s[1] \in 0..9 THEN 48 + s[1]
           ELSE IF s[1] \in 10..15 THEN 87 + s[1] ELSE s[1]>> \o Utf8(Tail(s))

\* Python values handed to the signing operations: bytes or str.
PyBytes(v) == [type |-> "bytes", v |-> v]
PyStr(v) == [type |-> "str", v |-> v]
PyNone == [type |-> "NoneType", v |-> <<>>]

\* ------------------------------------------------------------------ ECDSA
\* SigningKey.get_verifying_key().
PublicOf(private_key) == Mark("pub") \o private_key

\* SigningKey.sign(data) with nonce k: the library hashes data itself and
\* signs that digest. A signature is bound to the key pair, the digest and k.
SignBytes(private_key, data, k) ==
    Mark("sig") \o <<k>> \o PublicOf(private_key) \o Sha1(data)

\* Mutant: verification against another hash of the data than signing used.
VerifiesOtherHash(public_key, signature, data) ==
    /\ Len(signature) >= 2
    /\ SubSeq(signature, 1, 1) = Mark("sig")
    /\ SubSeq(signature, 3, Len(signature)) = public_key \o Sha256(data)

\* VerifyingKey.verify(signature, data) returns (it raises otherwise): the
\* library hashes data the same way and checks the signature against it.
Verifies(public_key, signature, data) ==
    /\ Len(signature) >= 2
    /\ SubSeq(signature, 1, 1) = Mark("sig")
    /\ SubSeq(signature, 3, Len(signature)) = public_key \o Sha1(data)

\* ------------------------------------------------------------------ hosts
FullEnv == [ecdsa |-> TRUE, keccak |-> TRUE, serial |-> TRUE, wlan0 |-> TRUE,
            eth0 |-> TRUE, machine |-> TRUE]
\* A host with no identifier source at all.
BareEnv == [FullEnv EXCEPT !.serial = FALSE, !.wlan0 = FALSE, !.eth0 = FALSE,
                           !.machine = FALSE]
\* Hosts on which one source yields nothing or raises (cat /proc/cpuinfo
\* fails, wlan0 is missing), and hosts with one source only.
PartialEnvs == {[FullEnv EXCEPT !.serial = FALSE], [FullEnv EXCEPT !.wlan0 = FALSE],
                [BareEnv EXCEPT !.eth0 = TRUE], [BareEnv EXCEPT !.machine = TRUE]}
Envs == {FullEnv, BareEnv, [FullEnv EXCEPT !.keccak = FALSE],
         [FullEnv EXCEPT !.ecdsa = FALSE]} \cup PartialEnvs

\* -------------------------------------------------- HardwareIdentity, pure
\* What each identifier source of the host yields when it is present.
HostValue(source) ==
    CASE source = "serial"  -> <<1>>
      [] source = "wlan0"   -> <<2>>
      [] source = "eth0"    -> <<3>>
      [] source = "machine" -> <<4>>

\* if self.camera_id: -- None and '' are both falsy.
Truthy(cam) == cam # NoneId /\ cam # ""

\* Mutant: the interfaces tried in the order eth0, wlan0.
IdentifiersEth0First(cam, e) ==
    (IF Truthy(cam) THEN <<Mark("camera:") \o CamBytes(cam)>> ELSE <<>>)
    \o (IF e.serial THEN <<Mark("serial:") \o HostValue("serial")>> ELSE <<>>)
    \o (IF e.eth0 THEN <<Mark("mac:") \o HostValue("eth0")>>
        ELSE IF e.wlan0 THEN <<Mark("mac:") \o HostValue("wlan0")>> ELSE <<>>)
    \o (IF e.machine THEN <<Mark("machine:") \o HostValue("machine")>> ELSE <<>>)

\* The list identifiers of _get_hardware_id, in the order it is appended to.
Identifiers(cam, e) ==
    (IF Truthy(cam) THEN <<Mark("camera:") \o CamBytes(cam)>> ELSE <<>>)
    \o (IF e.serial THEN <<Mark("serial:") \o HostValue("serial")>> ELSE <<>>)
    \o (IF e.wlan0 THEN <<Mark("mac:") \o HostValue("wlan0")>>
        ELSE IF e.eth0 THEN <<Mark("mac:") \o HostValue("eth0")>> ELSE <<>>)
    \o (IF e.machine THEN <<Mark("machine:") \o HostValue("machine")>> ELSE <<>>)

\* Mutant: no test of the list at lines 149-150.
GetHardwareIdUnchecked(cam, e) ==
    [ok |-> TRUE, v |-> Join(Identifiers(cam, e), Mark("|"))]

\* _get_hardware_id: raises when no identifier was collected.
GetHardwareId(cam, e) ==
    LET ids == Identifiers(cam, e)
    IN  [ok |-> ids # <<>>, v |-> Join(ids, Mark("|"))]

\* SigningKey.from_string (line 160) takes the 32 bytes as a big-endian
\* integer and raises unless 1 <= integer < order of SECP256k1.  Digests are
\* symbolic here: the one of camera "camB" on a host with every source and
\* salt 2 stands for the digests outside that range.
OutOfRange(seed) ==
    seed = Sha256(GetHardwareId("camB", FullEnv).v \o SaltBytes(2))

\* Mutant: a digest outside the range is hashed again until one is inside.
DeriveKeyRehashed(hw_id, saltv) ==
    LET seed == Sha256(hw_id \o SaltBytes(saltv))
        key  == IF OutOfRange(seed) THEN Sha256(seed) ELSE seed
    IN  [ok |-> TRUE, private_key |-> key, public_key |-> PublicOf(key)]

\* _derive_key: the SHA-256 of hw_id + salt is the private scalar; ok is
\* FALSE when line 160 raises.
DeriveKey(hw_id, saltv) ==
    LET seed == Sha256(hw_id \o SaltBytes(saltv))
    IN  [ok |-> ~OutOfRange(seed), private_key |-> seed,
         public_key |-> PublicOf(seed)]

\* Mutant: the SHA-256 path taken whatever the environment offers.
GetAddressSha256Always(public_key, e) ==
    <<0>> \o Mark("x") \o Hex(Sha256(public_key))

\* _get_address: "0x" and the hex of the (truncated) digest of the public key.
\* With KECCAK_AVAILABLE the digest is Keccak-256: the calls of lines 171-179
\* do not raise on a bytes argument, so the except clause of line 183 is not
\* entered.
GetAddress(public_key, e) ==
    IF e.keccak THEN <<0>> \o Mark("x") \o Hex(Keccak256(public_key))
    ELSE <<0>> \o Mark("x") \o Hex(Sha256(public_key))

\* A HardwareIdentity object: its fields after __init__; id tells objects
\* apart (the caller whose constructor call made it), origin is an observation:
\* the paths its salt was read from or written to by _get_or_create_salt.
NoObj == [id |-> <<0, 0>>, camera_id |-> NoneId, salt |-> 0, private_key |-> <<>>,
          public_key |-> <<>>, address |-> <<>>, initialized |-> FALSE,
          origin |-> {}]

\* Mutant: the key seeded by str(camera_id) as well ("None" for None).
InitializedSeededByCameraId(id, cam, saltv, e, from) ==
    LET hw == GetHardwareId(cam, e)
        k  == DeriveKey(hw.v \o (IF cam = NoneId THEN <<78>> ELSE CamBytes(cam)),
                        saltv)
    IN  [id |-> id, camera_id |-> cam, salt |-> saltv,
         private_key |-> k.private_key, public_key |-> k.public_key,
         address |-> GetAddress(k.public_key, e), initialized |-> TRUE,
         origin |-> from]

\* _initialize after the salt is known: the object it leaves behind.
Initialized(id, cam, saltv, e, from) ==
    LET hw == GetHardwareId(cam, e)
        k  == DeriveKey(hw.v, saltv)
    IN  [id |-> id, camera_id |-> cam, salt |-> saltv,
         private_key |-> k.private_key, public_key |-> k.public_key,
         address |-> GetAddress(k.public_key, e), initialized |-> TRUE,
         origin |-> from]

\* ------------------------------------------------------------- salt files
\* rd: what open(path, "rb") does -- "ok", "denied" (PermissionError) or
\*     "ioerr" (another OSError).
\* wr: what creating the salt at path does -- "ok"; "denied" (open(path, "wb")
\*     or the mkdir before it raises); "nospace" (open truncates, write or close
\*     raises OSError); "nochmod" (the bytes are written, os.chmod raises
\*     PermissionError: the file belongs to another user).
Reads == {"ok", "denied", "ioerr"}
Writes == {"ok", "denied", "nospace", "nochmod"}

Absent(w) == [exists |-> FALSE, len |-> 0, val |-> 0, rd |-> "ok", wr |-> w,
              mode |-> "none"]

\* The files a run can start with: none, or a file of any length left by
\* whatever ran before. A path that cannot be read as a file at all ("ioerr":
\* a directory, a failing device) cannot be opened for writing either.
FileStates ==
    {Absent(w) : w \in Writes \ {"nochmod"}}
    \cup {f \in [exists : {TRUE}, len : {0, SaltLen}, val : Salts \cup {0},
                 rd : Reads, wr : Writes, mode : {"0644"}] :
             /\ (f.len = SaltLen) = (f.val \in Salts)
             /\ f.rd = "ioerr" => f.wr = "denied"}

\* A file holds a salt when it is exactly SaltLen bytes long.
ValidSalt(f) == f.exists /\ f.len = SaltLen

\* Mutant: the length test of line 70 against the wrong length.
TryPrimaryWrongLength(f) ==
    IF ~f.exists THEN "miss"
    ELSE IF f.rd = "denied" THEN "miss"
    ELSE IF f.rd = "ioerr" THEN "raise"
    ELSE IF f.len = 2 * SaltLen THEN "hit" ELSE "miss"

\* Mutant: a PermissionError of the primary read is not caught.
TryPrimaryDeniedRaises(f) ==
    IF ~f.exists THEN "miss"
    ELSE IF f.rd # "ok" THEN "raise"
    ELSE IF f.len = SaltLen THEN "hit" ELSE "miss"

\* Lines 66-74: the primary path. "hit" returns the file's bytes, "miss" goes
\* on to the backup path, "raise" leaves _get_or_create_salt by an exception.
TryPrimary(f) ==
    IF ~f.exists THEN "miss"
    ELSE IF f.rd = "denied" THEN "miss"
    ELSE IF f.rd = "ioerr" THEN "raise"
    ELSE IF f.len = SaltLen THEN "hit" ELSE "miss"

\* Mutant: the backup file's bytes returned whatever their number.
TryBackupAnyLength(f) ==
    IF ~f.exists THEN "miss"
    ELSE IF f.rd # "ok" THEN "miss"
    ELSE "hit"

\* Lines 76-84: the backup path; every exception is caught.
TryBackup(f) ==
    IF ~f.exists THEN "miss"
    ELSE IF f.rd # "ok" THEN "miss"
    ELSE IF f.len = SaltLen THEN "hit" ELSE "miss"

\* open(path, "wb") succeeded: the file exists and is empty.
Truncated(f) ==
    [f EXCEPT !.exists = TRUE, !.len = 0, !.val = 0,
              !.mode = IF f.exists THEN f.mode ELSE "0644"]

\* Mutant: the bytes never leave the buffer; the file stays empty.
WrittenNothing(f, saltv) == f

\* f.write(salt) and the close of the with block.
Written(f, saltv) == [f EXCEPT !.len = SaltLen, !.val = saltv]

\* os.chmod(path, S_IRUSR | S_IWUSR) succeeded: the owner may read and write.
Chmodded(f) ==
    [f EXCEPT !.mode = "0600", !.rd = IF f.rd = "denied" THEN "ok" ELSE f.rd]

\* ------------------------------------------------------------ observations
\* hist[c] records, for the calls c made since its process started: the last
\* camera_id argument that was not None (lastcam) and whether every call
\* before the current one returned (allok);
\* and for c's current call: the cache it found when it was
\* called (cache0), whether neither salt file existed then (nofile), whether
\* os.urandom ran (gen), the paths it opened for
\* writing (tried), those whose write raised (failed), those that received the
\* salt bytes (stored), the path behind the return statement that ended
\* _get_or_create_salt (src), and whether the constructor ran to its end (built).
NoHist == [lastcam |-> NoneId, allok |-> TRUE,
           cache0 |-> NoObj, nofile |-> FALSE, gen |-> FALSE, tried |-> {},
           failed |-> {}, stored |-> {}, src |-> "none", built |-> FALSE]

\* made: the value, the path and the nofile of the call whose
\* _get_or_create_salt last returned a salt it had created.
NoMade == [val |-> 0, path |-> "none", nofile |-> FALSE]

\* out[c]: the operation, the object it ran on (who), its arguments (data,
\* and sig for verify_signature), whether it raised, and what it returned:
\* value (the bool of verify_signature), sig (the signature produced), and
\* the address, algorithm and salt_path entries of sign_hash's record.
NoOut == [op |-> "none", who |-> NoObj, data |-> PyBytes(<<>>),
          sig |-> PyBytes(<<>>), raised |-> FALSE, value |-> FALSE,
          address |-> <<>>, algorithm |-> "", salt_path |-> "",
          result |-> PyNone]

\* script: export_key.py is not running ("none"), waits for the
\* get_hardware_identity() of line 19 ("temp") or for that of line 26
\* ("final"), has written the export file ("exported") or has left with
\* sys.exit(1) ("exit1"); argv and envcam are sys.argv[1] and
\* os.environ['CAMERA_ID'] (NoneId when absent), camera_id is its local.
\* dest is what open(export_file, 'w') does in this run: "ok" or "denied".
NoScript == [phase |-> "none", argv |-> NoneId, envcam |-> NoneId,
             camera_id |-> NoneId, dest |-> "ok"]

\* keyfile: no export file, or the record json.dump wrote.
NoKeyFile == [written |-> FALSE, privateKey |-> <<>>, address |-> <<>>,
              cameraId |-> NoneId, publicKey |-> PyNone]

\* ---------------------------------------------------- get_hardware_identity
\* Mutant: the test camera_id is not None of line 259 left out.
NeedsConstructionNoneCompared(cached, cam) ==
    \/ cached = NoObj
    \/ cached.camera_id # cam

\* Mutant: an object is constructed only while the cache is empty.
NeedsConstructionFirstOnly(cached, cam) ==
    cached = NoObj

\* Lines 257-260: the conditions under which a new object is constructed.
NeedsConstruction(cached, cam) ==
    \/ cached = NoObj
    \/ cam # NoneId /\ cached.camera_id # cam

\* The positions inside HardwareIdentity.__init__.
ConstructionPcs == {"read_primary", "read_backup", "urandom", "open_primary",
                    "write_primary", "open_backup", "write_backup", "initialize"}

\* Control enters get_hardware_identity(camera_id = cam).
Enter(c, cam) ==
    /\ pc[c] \in {"idle", "done", "failed"}
    /\ pc' = [pc EXCEPT ![c] = "check"]
    /\ camera' = [camera EXCEPT ![c] = cam]
    /\ salt' = [salt EXCEPT ![c] = 0]
    /\ obj' = [obj EXCEPT ![c] = NoObj]
    /\ ret' = [ret EXCEPT ![c] = NoObj]
    /\ hist' = [hist EXCEPT ![c] =
                  [NoHist EXCEPT !.cache0 = registry[ProcOf(c)],
                                 !.nofile = \A p \in Paths : ~fs[p].exists,
                                 !.lastcam = IF cam # NoneId THEN cam
                                             ELSE hist[c].lastcam,
                                 !.allok = hist[c].allok /\ pc[c] # "failed"]]
    /\ UNCHANGED <<fs, env, registry, made, out>>

\* A caller other than the export script (the application, line 647 of
\* raspberry_pi_camera_app.py) calls get_hardware_identity(camera_id = cam).
Call(c, cam) ==
    /\ script.phase = "none"
    /\ Enter(c, cam)
    /\ UNCHANGED <<script, keyfile>>

\* Lines 257-260 read the global; __init__ (lines 39-47) starts when a new
\* object is needed and raises at once without the ecdsa library.
Check(c) ==
    /\ pc[c] = "check"
    /\ IF NeedsConstruction(registry[ProcOf(c)], camera[c])
       THEN IF env.ecdsa
            THEN /\ pc' = [pc EXCEPT ![c] = "read_primary"]
                 /\ ret' = ret
            ELSE /\ pc' = [pc EXCEPT ![c] = "failed"]
                 /\ ret' = [ret EXCEPT ![c] = NoObj]
       ELSE /\ pc' = [pc EXCEPT ![c] = "return"]
            /\ ret' = ret
    /\ UNCHANGED <<fs, env, registry, camera, salt, obj, hist, made, out,
                 script, keyfile>>

\* ----------------------------------------------------- _get_or_create_salt
\* Mutant: the exception is swallowed (no raise at line 63) and the
\* constructor returns the object as it is.
RaiseSwallowed(c) ==
    /\ pc' = [pc EXCEPT ![c] = "assign"]
    /\ ret' = ret

\* An exception leaves the call: nothing is returned to the caller.
Raise(c) ==
    /\ pc' = [pc EXCEPT ![c] = "failed"]
    /\ ret' = [ret EXCEPT ![c] = NoObj]

\* Lines 66-74.
ReadPrimary(c) ==
    /\ pc[c] = "read_primary"
    /\ LET r == TryPrimary(fs["primary"])
       IN  CASE r = "hit" ->
                 /\ pc' = [pc EXCEPT ![c] = "initialize"]
                 /\ salt' = [salt EXCEPT ![c] = fs["primary"].val]
                 /\ hist' = [hist EXCEPT ![c].src = "primary"]
                 /\ ret' = ret
             [] r = "miss" ->
                 /\ pc' = [pc EXCEPT ![c] = "read_backup"]
                 /\ UNCHANGED <<salt, hist, ret>>
             [] r = "raise" ->
                 /\ Raise(c)
                 /\ UNCHANGED <<salt, hist>>
    /\ UNCHANGED <<fs, env, registry, camera, obj, made, out, script, keyfile>>

\* Lines 76-84.
ReadBackup(c) ==
    /\ pc[c] = "read_backup"
    /\ IF TryBackup(fs["backup"]) = "hit"
       THEN /\ pc' = [pc EXCEPT ![c] = "initialize"]
            /\ salt' = [salt EXCEPT ![c] = fs["backup"].val]
            /\ hist' = [hist EXCEPT ![c].src = "backup"]
       ELSE /\ pc' = [pc EXCEPT ![c] = "urandom"]
            /\ UNCHANGED <<salt, hist>>
    /\ UNCHANGED <<fs, env, registry, camera, obj, ret, made, out,
                 script, keyfile>>

\* Line 87: salt = os.urandom(32).
Urandom(c) ==
    /\ pc[c] = "urandom"
    /\ \E v \in Salts : salt' = [salt EXCEPT ![c] = v]
    /\ hist' = [hist EXCEPT ![c].gen = TRUE]
    /\ pc' = [pc EXCEPT ![c] = "open_primary"]
    /\ UNCHANGED <<fs, env, registry, camera, obj, ret, made, out,
                 script, keyfile>>

\* Mutant: no except clause, the failure of the primary write propagates.
PrimaryFailurePropagates == "failed"

\* Where the except clause of lines 94-97 sends a failed primary write.
AfterPrimaryFailure == "open_backup"

\* Line 90: open(SALT_PATH, "wb").
OpenPrimary(c) ==
    /\ pc[c] = "open_primary"
    /\ IF fs["primary"].wr = "denied"
       THEN /\ pc' = [pc EXCEPT ![c] = AfterPrimaryFailure]
            /\ hist' = [hist EXCEPT ![c].tried = @ \cup {"primary"},
                                    ![c].failed = @ \cup {"primary"}]
            /\ fs' = fs
       ELSE /\ pc' = [pc EXCEPT ![c] = "write_primary"]
            /\ hist' = [hist EXCEPT ![c].tried = @ \cup {"primary"}]
            /\ fs' = [fs EXCEPT !["primary"] = Truncated(@)]
    /\ UNCHANGED <<env, registry, camera, salt, obj, ret, made, out,
                 script, keyfile>>

\* Lines 91-93: f.write(salt), close, os.chmod.
WritePrimary(c) ==
    /\ pc[c] = "write_primary"
    /\ LET f == fs["primary"]
       IN  CASE f.wr = "nospace" ->
                 /\ pc' = [pc EXCEPT ![c] = AfterPrimaryFailure]
                 /\ hist' = [hist EXCEPT ![c].failed = @ \cup {"primary"}]
                 /\ fs' = fs
             [] f.wr = "nochmod" ->
                 /\ pc' = [pc EXCEPT ![c] = AfterPrimaryFailure]
                 /\ hist' = [hist EXCEPT ![c].failed = @ \cup {"primary"},
                                         ![c].stored = @ \cup {"primary"}]
                 /\ fs' = [fs EXCEPT !["primary"] = Written(f, salt[c])]
             [] OTHER ->
                 /\ pc' = [pc EXCEPT ![c] = "initialize"]
                 /\ hist' = [hist EXCEPT ![c].stored = @ \cup {"primary"},
                                         ![c].src = "primary"]
                 /\ fs' = [fs EXCEPT !["primary"] = Chmodded(Written(f, salt[c]))]
    /\ made' = IF fs["primary"].wr = "ok"
               THEN [val |-> salt[c], path |-> "primary", nofile |-> hist[c].nofile]
               ELSE made
    /\ UNCHANGED <<env, registry, camera, salt, obj, ret, out, script, keyfile>>

\* Lines 97-98: mkdir of the parent and open(SALT_BACKUP_PATH, "wb"); nothing
\* catches what they raise.
OpenBackup(c) ==
    /\ pc[c] = "open_backup"
    /\ IF fs["backup"].wr = "denied"
       THEN /\ Raise(c)
            /\ hist' = [hist EXCEPT ![c].tried = @ \cup {"backup"},
                                    ![c].failed = @ \cup {"backup"}]
            /\ fs' = fs
       ELSE /\ pc' = [pc EXCEPT ![c] = "write_backup"]
            /\ hist' = [hist EXCEPT ![c].tried = @ \cup {"backup"}]
            /\ fs' = [fs EXCEPT !["backup"] = Truncated(@)]
            /\ ret' = ret
    /\ UNCHANGED <<env, registry, camera, salt, obj, made, out,
                 script, keyfile>>

\* Mutant: the backup write wrapped in a try block that swallows the error.
BackupFailureSwallowed == FALSE

\* Lines 97-100 stand in no try block: does an exception of the backup write
\* leave _get_or_create_salt?
BackupFailureRaises == TRUE

\* Lines 99-103: f.write(salt), close, os.chmod, return salt.
WriteBackup(c) ==
    /\ pc[c] = "write_backup"
    /\ LET f == fs["backup"]
           failing == f.wr \in {"nospace", "nochmod"}
       IN  /\ fs' = [fs EXCEPT !["backup"] =
                        CASE f.wr = "nospace" -> f
                          [] f.wr = "nochmod" -> Written(f, salt[c])
                          [] OTHER            -> Chmodded(Written(f, salt[c]))]
           /\ hist' = [hist EXCEPT
                        ![c].failed = IF failing THEN @ \cup {"backup"} ELSE @,
                        ![c].stored = IF f.wr = "nospace" THEN @ ELSE @ \cup {"backup"},
                        ![c].src = IF failing THEN @ ELSE "backup"]
           /\ IF failing /\ BackupFailureRaises
              THEN /\ Raise(c)
                   /\ made' = made
              ELSE /\ pc' = [pc EXCEPT ![c] = "initialize"]
                   /\ ret' = ret
                   /\ made' = [val |-> salt[c], path |-> "backup",
                               nofile |-> hist[c].nofile]
    /\ UNCHANGED <<env, registry, camera, salt, obj, out, script, keyfile>>

\* -------------------------------------------------------------- _initialize
\* Mutant: _initialize also dumps the key it derived to the export file.
InitializeExporting(c) ==
    /\ pc[c] = "initialize"
    /\ obj' = [obj EXCEPT ![c] = Initialized(c, camera[c], salt[c], env,
                                            {hist[c].src} \cup hist[c].stored)]
    /\ keyfile' = [NoKeyFile EXCEPT !.written = TRUE,
                                    !.privateKey = obj'[c].private_key]
    /\ hist' = [hist EXCEPT ![c].built = TRUE]
    /\ pc' = [pc EXCEPT ![c] = "assign"]
    /\ salt' = [salt EXCEPT ![c] = 0]
    /\ UNCHANGED <<fs, env, registry, camera, ret, made, out, script>>

\* Mutant: a constructor that fails resets the module global on its way out.
InitializeClearingCache(c) ==
    /\ pc[c] = "initialize"
    /\ IF /\ GetHardwareId(camera[c], env).ok
          /\ DeriveKey(GetHardwareId(camera[c], env).v, salt[c]).ok
       THEN /\ obj' = [obj EXCEPT ![c] =
                        Initialized(c, camera[c], salt[c], env,
                                    {hist[c].src} \cup hist[c].stored)]
            /\ hist' = [hist EXCEPT ![c].built = TRUE]
            /\ pc' = [pc EXCEPT ![c] = "assign"]
            /\ ret' = ret
            /\ registry' = registry
       ELSE /\ Raise(c)
            /\ registry' = [registry EXCEPT ![ProcOf(c)] = NoObj]
            /\ UNCHANGED <<obj, hist>>
    /\ salt' = [salt EXCEPT ![c] = 0]
    /\ UNCHANGED <<fs, env, camera, made, out, script, keyfile>>

\* Lines 54-58 with the salt in hand; lines 61-63 re-raise any exception.
Initialize(c) ==
    /\ pc[c] = "initialize"
    /\ IF /\ GetHardwareId(camera[c], env).ok
          /\ DeriveKey(GetHardwareId(camera[c], env).v, salt[c]).ok
       THEN /\ obj' = [obj EXCEPT ![c] =
                        Initialized(c, camera[c], salt[c], env,
                                    {hist[c].src} \cup hist[c].stored)]
            /\ hist' = [hist EXCEPT ![c].built = TRUE]
            /\ pc' = [pc EXCEPT ![c] = "assign"]
            /\ ret' = ret
       ELSE /\ Raise(c)
            /\ UNCHANGED <<obj, hist>>
    /\ salt' = [salt EXCEPT ![c] = 0]
    /\ UNCHANGED <<fs, env, registry, camera, made, out, script, keyfile>>

\* Lines 258 / 260: _hardware_identity = <the new object>.
Assign(c) ==
    /\ pc[c] = "assign"
    /\ registry' = [registry EXCEPT ![ProcOf(c)] = obj[c]]
    /\ pc' = [pc EXCEPT ![c] = "return"]
    /\ obj' = [obj EXCEPT ![c] = NoObj]
    /\ UNCHANGED <<fs, env, camera, salt, ret, hist, made, out,
                 script, keyfile>>

\* Line 261: return _hardware_identity.
Return(c) ==
    /\ pc[c] = "return"
    /\ ret' = [ret EXCEPT ![c] = registry[ProcOf(c)]]
    /\ pc' = [pc EXCEPT ![c] = "done"]
    /\ UNCHANGED <<fs, env, registry, camera, salt, obj, hist, made, out,
                 script, keyfile>>

\* Process p exits and is started again: a fresh module, _hardware_identity
\* = None (line 253); the salt files stay.
Restart(p) ==
    /\ \A c \in Callers : ProcOf(c) = p => pc[c] \in {"idle", "done", "failed"}
    /\ \E c \in Callers : ProcOf(c) = p /\ pc[c] # "idle"
    /\ registry' = [registry EXCEPT ![p] = NoObj]
    /\ pc' = [c \in Callers |-> IF ProcOf(c) = p THEN "idle" ELSE pc[c]]
    /\ camera' = [c \in Callers |-> IF ProcOf(c) = p THEN NoneId ELSE camera[c]]
    /\ salt' = [c \in Callers |-> IF ProcOf(c) = p THEN 0 ELSE salt[c]]
    /\ obj' = [c \in Callers |-> IF ProcOf(c) = p THEN NoObj ELSE obj[c]]
    /\ ret' = [c \in Callers |-> IF ProcOf(c) = p THEN NoObj ELSE ret[c]]
    /\ hist' = [c \in Callers |-> IF ProcOf(c) = p THEN NoHist ELSE hist[c]]
    /\ out' = [c \in Callers |-> IF ProcOf(c) = p THEN NoOut ELSE out[c]]
    /\ script' = NoScript
    /\ UNCHANGED <<fs, env, made, keyfile>>

\* ------------------------------------------------------- sign and verify
\* Lines 190-198: sign_data.
SignDataResult(o, data, k) ==
    IF ~o.initialized
    THEN [NoOut EXCEPT !.op = "sign_data", !.who = o, !.data = data, !.raised = TRUE]
    ELSE LET d == IF data.type = "str" THEN Utf8(data.v) ELSE data.v
         IN  [NoOut EXCEPT !.op = "sign_data", !.who = o, !.data = data,
                           !.sig = PyBytes(SignBytes(o.private_key, d, k))]

\* Line 214: the salt_path entry.
SaltPathEntry(files) == IF files["primary"].exists THEN "primary" ELSE "backup"

\* Lines 200-215: sign_hash; bytes.fromhex raises ValueError on a string that
\* is not hex.
SignHashResult(o, data_hash, k, files) ==
    IF ~o.initialized \/ (data_hash.type = "str" /\ ~HexValid(Strip0x(data_hash.v)))
    THEN [NoOut EXCEPT !.op = "sign_hash", !.who = o, !.data = data_hash,
                       !.raised = TRUE]
    ELSE LET h == IF data_hash.type = "str" THEN FromHex(Strip0x(data_hash.v))
                  ELSE data_hash.v
         IN  [NoOut EXCEPT !.op = "sign_hash", !.who = o, !.data = data_hash,
                           !.sig = PyStr(Hex(SignBytes(o.private_key, h, k))),
                           !.address = o.address,
                           !.algorithm = "ECDSA_SECP256k1",
                           !.salt_path = SaltPathEntry(files)]

\* Lines 217-231: verify_signature; the hex conversion of line 225 is outside
\* the try block of lines 227-231.
VerifyResult(o, data, signature) ==
    IF ~o.initialized \/ (signature.type = "str" /\ ~HexValid(Strip0x(signature.v)))
    THEN [NoOut EXCEPT !.op = "verify", !.who = o, !.data = data,
                       !.sig = signature, !.raised = TRUE]
    ELSE LET d == IF data.type = "str" THEN Utf8(data.v) ELSE data.v
             g == IF signature.type = "str" THEN FromHex(Strip0x(signature.v))
                  ELSE signature.v
         IN  [NoOut EXCEPT !.op = "verify", !.who = o, !.data = data,
                           !.sig = signature,
                           !.value = Verifies(o.public_key, g, d)]

\* Lines 233-236: get_public_key_hex returns None on an object that is not
\* initialized.
GetPublicKeyHexResult(o) ==
    [NoOut EXCEPT !.op = "get_public_key_hex", !.who = o,
                  !.result = IF ~o.initialized THEN PyNone
                             ELSE PyStr(Hex(o.public_key))]

\* Lines 238-239: get_address returns the field, None before _get_address ran.
GetAddressResult(o) ==
    [NoOut EXCEPT !.op = "get_address", !.who = o,
                  !.result = IF o.address = <<>> THEN PyNone ELSE PyStr(o.address)]

\* Lines 241-242: get_camera_id returns the field.
GetCameraIdResult(o) ==
    [NoOut EXCEPT !.op = "get_camera_id", !.who = o,
                  !.result = IF o.camera_id = NoneId THEN PyNone
                             ELSE PyStr(CamBytes(o.camera_id))]

\* The caller uses the object its call returned.
SignData(c, data, k) ==
    /\ pc[c] = "done"
    /\ out' = [out EXCEPT ![c] = SignDataResult(ret[c], data, k)]
    /\ UNCHANGED <<fs, env, registry, pc, camera, salt, obj, ret, hist, made,
                 script, keyfile>>

\* Mutant: sign_hash clears the address field of the cached object.
SignHashClearing(c, data_hash, k) ==
    /\ pc[c] = "done"
    /\ out' = [out EXCEPT ![c] = SignHashResult(ret[c], data_hash, k, fs)]
    /\ registry' = [registry EXCEPT ![ProcOf(c)].address = <<>>]
    /\ UNCHANGED <<fs, env, pc, camera, salt, obj, ret, hist, made, script, keyfile>>

SignHash(c, data_hash, k) ==
    /\ pc[c] = "done"
    /\ out' = [out EXCEPT ![c] = SignHashResult(ret[c], data_hash, k, fs)]
    /\ UNCHANGED <<fs, env, registry, pc, camera, salt, obj, ret, hist, made,
                 script, keyfile>>

VerifySignature(c, data, signature) ==
    /\ pc[c] = "done"
    /\ out' = [out EXCEPT ![c] = VerifyResult(ret[c], data, signature)]
    /\ UNCHANGED <<fs, env, registry, pc, camera, salt, obj, ret, hist, made,
                 script, keyfile>>

GetPublicKeyHex(c) ==
    /\ pc[c] = "done"
    /\ out' = [out EXCEPT ![c] = GetPublicKeyHexResult(ret[c])]
    /\ UNCHANGED <<fs, env, registry, pc, camera, salt, obj, ret, hist, made,
                   script, keyfile>>

GetAddressOp(c) ==
    /\ pc[c] = "done"
    /\ out' = [out EXCEPT ![c] = GetAddressResult(ret[c])]
    /\ UNCHANGED <<fs, env, registry, pc, camera, salt, obj, ret, hist, made,
                   script, keyfile>>

GetCameraId(c) ==
    /\ pc[c] = "done"
    /\ out' = [out EXCEPT ![c] = GetCameraIdResult(ret[c])]
    /\ UNCHANGED <<fs, env, registry, pc, camera, salt, obj, ret, hist, made,
                   script, keyfile>>

\* ------------------------------------------------------------------ export
\* export_key.py lines 27-34 and _export_device_key lines 1049-1058: the
\* record that json.dump writes.
ExportData(o) ==
    [written |-> TRUE,
     privateKey |-> <<0>> \o Mark("x") \o Hex(o.private_key),
     address |-> o.address,
     cameraId |-> o.camera_id,
     publicKey |-> GetPublicKeyHexResult(o).result]

\* export_key.py lines 11-15: sys.argv[1] when there is one, else the
\* environment's CAMERA_ID when there is one, else None.
ChosenCameraId(argv, envcam) ==
    IF argv # NoneId THEN argv ELSE IF envcam # NoneId THEN envcam ELSE NoneId

\* export_key.py starts in a fresh process; lines 11-19 or 11-26: without a
\* truthy camera id it first calls get_hardware_identity().
ExportBegin(c, argv, envcam, dest) ==
    /\ script.phase = "none"
    /\ pc[c] = "idle"
    /\ LET cam == ChosenCameraId(argv, envcam)
       IN  /\ script' = [phase |-> IF Truthy(cam) THEN "final" ELSE "temp",
                         argv |-> argv, envcam |-> envcam, camera_id |-> cam,
                         dest |-> dest]
           /\ Enter(c, IF Truthy(cam) THEN cam ELSE NoneId)
    /\ keyfile' = keyfile

\* export_key.py lines 20-26: the first call returned (camera_id becomes the
\* returned object's) or raised (except: pass); get_hardware_identity is
\* called with camera_id.
ExportResume(c) ==
    /\ script.phase = "temp"
    /\ pc[c] \in {"done", "failed"}
    /\ LET cam == IF pc[c] = "done" THEN ret[c].camera_id ELSE script.camera_id
       IN  /\ script' = [script EXCEPT !.phase = "final", !.camera_id = cam]
           /\ Enter(c, cam)
    /\ keyfile' = keyfile

\* export_key.py lines 27-42: the record is written; an exception of open
\* goes to lines 44-46.
ExportWrite(c) ==
    /\ script.phase = "final"
    /\ pc[c] = "done"
    /\ IF script.dest = "ok"
       THEN /\ keyfile' = ExportData(ret[c])
            /\ script' = [script EXCEPT !.phase = "exported"]
       ELSE /\ keyfile' = keyfile
            /\ script' = [script EXCEPT !.phase = "exit1"]
    /\ UNCHANGED <<fs, env, registry, pc, camera, salt, obj, ret, hist, made, out>>

\* Mutant: the exception of line 26 is dropped and success is reported.
ExportFailSilent(c) ==
    /\ script.phase = "final"
    /\ pc[c] = "failed"
    /\ script' = [script EXCEPT !.phase = "exported"]
    /\ UNCHANGED <<fs, env, registry, pc, camera, salt, obj, ret, hist, made, out,
                   keyfile>>

\* export_key.py lines 44-46: the call of line 26 raised.
ExportFail(c) ==
    /\ script.phase = "final"
    /\ pc[c] = "failed"
    /\ script' = [script EXCEPT !.phase = "exit1"]
    /\ UNCHANGED <<fs, env, registry, pc, camera, salt, obj, ret, hist, made, out,
                   keyfile>>

\* raspberry_pi_camera_app.py lines 647-650 and 1039-1069: the application
\* exports the key of the identity it got.
AppExport(c) ==
    /\ script.phase = "none"
    /\ pc[c] = "done"
    /\ keyfile' = ExportData(ret[c])
    /\ UNCHANGED <<fs, env, registry, pc, camera, salt, obj, ret, hist, made, out,
                   script>>

\* --------------------------------------------------------------- arguments
\* The bytes a signature argument stands for, when it stands for any.
SigBytes(g) ==
    IF g.type = "bytes" THEN g.v
    ELSE IF HexValid(Strip0x(g.v)) THEN FromHex(Strip0x(g.v)) ELSE <<>>
DataBytes(d) == IF d.type = "str" THEN Utf8(d.v) ELSE d.v

\* Payloads b"H" and b"I".
Payloads == {<<72>>, <<73>>}
\* data arguments: the payloads as bytes and one as str; verify_signature is
\* also given a payload's digest.
DataArgs == {PyBytes(d) : d \in Payloads} \cup {PyStr(<<72>>)}
VerifyArgs == DataArgs \cup {PyBytes(Sha256(<<72>>))}
\* data_hash arguments: SHA-256 digests as bytes, as hex, as "0x" and hex, and
\* a string that is not hex ("zz").
HashArgs ==
    {PyBytes(Sha256(d)) : d \in Payloads}
    \cup {PyStr(Hex(Sha256(<<72>>))), PyStr(<<0>> \o Mark("x") \o Hex(Sha256(<<72>>))),
          PyStr(<<122, 122>>)}
\* The forms in which a signature a signing call returned is handed back.
Forms(g) ==
    LET b == IF g.type = "str" THEN FromHex(g.v) ELSE g.v
    IN  {PyBytes(b), PyStr(Hex(b)), PyStr(<<0>> \o Mark("x") \o Hex(b))}
\* signature arguments: what the last signing call of any caller returned, and
\* input that is no signature: a short bytes value, "zz", "0xzz", "abc".
SigArgs ==
    UNION {Forms(out[c].sig) : c \in {x \in Callers :
                out[x].op \in {"sign_data", "sign_hash"} /\ ~out[x].raised}}
    \cup {PyBytes(<<7>>), PyStr(<<122, 122>>),
          PyStr(<<0>> \o Mark("x") \o <<122, 122>>), PyStr(<<10, 11, 12>>)}

\* ---------------------------------------------------------- specifications
Quiet ==
    /\ registry = [p \in Procs |-> NoObj]
    /\ pc = [c \in Callers |-> "idle"]
    /\ camera = [c \in Callers |-> NoneId]
    /\ salt = [c \in Callers |-> 0]
    /\ obj = [c \in Callers |-> NoObj]
    /\ ret = [c \in Callers |-> NoObj]
    /\ hist = [c \in Callers |-> NoHist]
    /\ made = NoMade
    /\ out = [c \in Callers |-> NoOut]
    /\ script = NoScript
    /\ keyfile = NoKeyFile

Step(c, cams) ==
    \/ \E cam \in cams : Call(c, cam)
    \/ Check(c)
    \/ ReadPrimary(c)
    \/ ReadBackup(c)
    \/ Urandom(c)
    \/ OpenPrimary(c)
    \/ WritePrimary(c)
    \/ OpenBackup(c)
    \/ WriteBackup(c)
    \/ Initialize(c)
    \/ Assign(c)
    \/ Return(c)

\* One single-threaded process, calling and restarting in sequence: on any
\* salt files, and on any host.
Init ==
    /\ \/ fs \in [Paths -> FileStates] /\ env = FullEnv
       \/ fs \in [Paths -> {Absent("ok"), Absent("denied")}] /\ env \in Envs
    /\ Quiet

Next ==
    \/ Step(Main, CameraIds)
    \/ Restart(1)
    \/ SignHash(Main, PyBytes(Sha256(<<72>>)), 1)

Spec == Init /\ [][Next]_vars

\* Single-threaded processes racing on the salt files, none of which exists
\* at the start.
RaceInit ==
    /\ fs \in [Paths -> {Absent(w) : w \in Writes \ {"nochmod"}}]
    /\ env = FullEnv
    /\ Quiet

RaceNext ==
    \/ \E c \in ProcCallers : Step(c, ProcCameraIds)
    \/ \E p \in Procs : Restart(p)

RaceSpec == RaceInit /\ [][RaceNext]_vars

\* The threads of one process racing on _hardware_identity.
ThreadInit ==
    /\ fs \in [Paths -> {Absent("ok"), Absent("denied")}]
    /\ env \in {FullEnv, BareEnv}
    /\ Quiet

ThreadNext ==
    \/ \E c \in ThreadCallers : Step(c, ThreadCameraIds)
    \/ Restart(1)

ThreadSpec == ThreadInit /\ [][ThreadNext]_vars

\* One process signing and verifying; a replaced camera id or a restart gives
\* a freshly constructed object.
SignInit ==
    /\ \/ /\ fs = [p \in Paths |-> Absent("ok")]
          /\ env \in {FullEnv, [FullEnv EXCEPT !.keccak = FALSE]}
       \/ /\ fs = [p \in Paths |-> IF p = "primary" THEN Absent("denied")
                                                    ELSE Absent("ok")]
          /\ env = FullEnv
    /\ Quiet

SignNext ==
    \/ Step(Main, {NoneId, "", "camA"})
    \/ Restart(1)
    \/ \E d \in DataArgs, k \in Nonces : SignData(Main, d, k)
    \/ \E h \in HashArgs, k \in Nonces : SignHash(Main, h, k)
    \/ \E d \in VerifyArgs, g \in SigArgs : VerifySignature(Main, d, g)

SignSpec == SignInit /\ [][SignNext]_vars

\* The operations of one HardwareIdentity object called by the threads of a
\* process in any interleaving. The object is a constructed one, cached and
\* returned to every thread, with its salt in the primary file; or one whose
\* fields are still those of lines 39-44 (initialized = False), held by the
\* threads only.
SaltFile(v) == [exists |-> TRUE, len |-> SaltLen, val |-> v, rd |-> "ok",
                wr |-> "ok", mode |-> "0600"]

OpsCameraIds == {NoneId, "camA"}
\* The arguments the threads pass: sign_data signs b"H", sign_hash its digest;
\* verify_signature is given either payload, and the bytes of the last
\* signature of any thread or bytes that are no signature.
OpsDataArgs == {PyBytes(<<72>>)}
OpsHashArgs == {PyBytes(Sha256(<<72>>))}
OpsVerifyArgs == {PyBytes(d) : d \in Payloads}
OpsSigArgs ==
    {PyBytes(SigBytes(out[c].sig)) : c \in {x \in Callers :
                out[x].op \in {"sign_data", "sign_hash"} /\ ~out[x].raised}}
    \cup {PyBytes(<<7>>)}

OpsInit ==
    /\ env = FullEnv
    /\ \E cam \in OpsCameraIds :
          \/ LET o == Initialized(Main, cam, 1, env, {"primary"})
             IN  /\ fs = [p \in Paths |-> IF p = "primary" THEN SaltFile(1)
                                                           ELSE Absent("ok")]
                 /\ registry = [p \in Procs |-> IF p = 1 THEN o ELSE NoObj]
                 /\ ret = [c \in Callers |-> IF c \in ThreadCallers THEN o
                                                                    ELSE NoObj]
          \/ LET o == [NoObj EXCEPT !.camera_id = cam]
             IN  /\ fs = [p \in Paths |-> Absent("ok")]
                 /\ registry = [p \in Procs |-> NoObj]
                 /\ ret = [c \in Callers |-> IF c \in ThreadCallers THEN o
                                                                    ELSE NoObj]
    /\ pc = [c \in Callers |-> IF c \in ThreadCallers THEN "done" ELSE "idle"]
    /\ camera = [c \in Callers |-> ret[c].camera_id]
    /\ salt = [c \in Callers |-> 0]
    /\ obj = [c \in Callers |-> NoObj]
    /\ hist = [c \in Callers |-> NoHist]
    /\ made = NoMade
    /\ out = [c \in Callers |-> NoOut]
    /\ script = NoScript
    /\ keyfile = NoKeyFile

OpsNext ==
    \E c \in ThreadCallers :
        \/ \E d \in OpsDataArgs, k \in Nonces : SignData(c, d, k)
        \/ \E h \in OpsHashArgs, k \in Nonces : SignHash(c, h, k)
        \/ \E d \in OpsVerifyArgs, g \in OpsSigArgs : VerifySignature(c, d, g)
        \/ GetPublicKeyHex(c)
        \/ GetAddressOp(c)
        \/ GetCameraId(c)

OpsSpec == OpsInit /\ [][OpsNext]_vars

\* One process at a time, either a run of export_key.py or the application
\* (which constructs the identity, exports and signs); a restart ends it.
ExportArgs == {NoneId, "", "camA", "camB"}
Dests == {"ok", "denied"}

ExportInit ==
    /\ fs \in [Paths -> {Absent("ok"), Absent("denied")}]
    /\ env \in {FullEnv, BareEnv, [FullEnv EXCEPT !.ecdsa = FALSE]}
    /\ Quiet

ExportNext ==
    \/ \E argv \in ExportArgs, envcam \in ExportArgs, dest \in Dests :
          ExportBegin(Main, argv, envcam, dest)
    \/ ExportResume(Main)
    \/ ExportWrite(Main)
    \/ ExportFail(Main)
    \/ Step(Main, {NoneId, "camA"})
    \/ AppExport(Main)
    \/ \E k \in Nonces : SignHash(Main, PyBytes(Sha256(<<72>>)), k)
    \/ GetPublicKeyHex(Main)
    \/ Restart(1)

ExportSpec == ExportInit /\ [][ExportNext]_vars

\* ================================================================= claims
Done(c) == pc[c] = "done"
CreationPcs == {"urandom", "open_primary", "write_primary", "open_backup",
                "write_backup"}

\* C1: _get_or_create_salt never draws new random bytes (line 87) while a
\* file of exactly 32 bytes exists at the primary or at the backup path.
C1_NeverRegenerates ==
    [][\A c \in Callers :
          (pc[c] = "urandom" /\ pc'[c] = "open_primary")
          => ~(ValidSalt(fs["primary"]) \/ ValidSalt(fs["backup"]))]_vars

\* What a lookup of the salt finds on disk now.
StoredSalt ==
    IF ValidSalt(fs["primary"]) THEN fs["primary"].val
    ELSE IF ValidSalt(fs["backup"]) THEN fs["backup"].val ELSE 0

\* C2: two processes that both ran _get_or_create_salt from a state with no
\* salt file return the same bytes, the bytes stored on disk.
C2_RacersAgree ==
    \A c1, c2 \in ProcCallers :
        (c1 # c2 /\ Done(c1) /\ Done(c2) /\ hist[c1].nofile /\ hist[c2].nofile)
        => (ret[c1].salt = ret[c2].salt /\ ret[c1].salt = StoredSalt)

\* C3: threads that called get_hardware_identity with the same camera id
\* while the cache was empty got one object from one construction.
C3_OneConstruction ==
    \A c1, c2 \in ThreadCallers :
        (c1 # c2 /\ Done(c1) /\ Done(c2) /\ camera[c1] = camera[c2]
         /\ hist[c1].cache0 = NoObj /\ hist[c2].cache0 = NoObj)
        => (ret[c1] = ret[c2] /\ ~(hist[c1].built /\ hist[c2].built))

\* C4: in a sequential series of calls, a completed call has constructed and
\* cached an object with its camera id when the cache was empty; has returned
\* the cached object and constructed nothing when its camera id is None or
\* that of the cached object; and otherwise has constructed one object with
\* its camera id, which is now the cached one.
C4_SequentialCaching ==
    Done(Main) =>
        LET old == hist[Main].cache0
            arg == camera[Main]
        IN  IF old # NoObj /\ (arg = NoneId \/ arg = old.camera_id)
            THEN /\ ~hist[Main].built /\ ~hist[Main].gen /\ hist[Main].tried = {}
                 /\ ret[Main] = old
                 /\ registry[1] = old
            ELSE /\ hist[Main].built
                 /\ ret[Main].initialized
                 /\ ret[Main].camera_id = arg
                 /\ registry[1] = ret[Main]

\* C4 witness: a call with a camera id other than the cached one has replaced
\* the cached object.
C4_Replaced ==
    /\ Done(Main)
    /\ hist[Main].cache0 # NoObj
    /\ camera[Main] # NoneId
    /\ camera[Main] # hist[Main].cache0.camera_id
    /\ registry[1] = ret[Main]
    /\ ret[Main].camera_id = camera[Main]

\* C5: verify_signature on a Ready object never raises; it returns True
\* exactly when the signature argument is a signature of data by the object's
\* key.
C5_VerifyNeverRaises ==
    \A c \in Callers :
        (out[c].op = "verify" /\ out[c].who.initialized)
        => /\ ~out[c].raised
           /\ out[c].value =
                (\E k \in Nonces : SigBytes(out[c].sig) =
                    SignBytes(out[c].who.private_key, DataBytes(out[c].data), k))

\* C6: verify_signature(data, s) returns True when s is the signature
\* sign_hash returns for the SHA-256 digest of data under the same key (the
\* same object, or one constructed from the same fingerprint and salt).
C6_SignHashVerifies ==
    \A c \in Callers :
        (/\ out[c].op = "verify"
         /\ out[c].who.initialized
         /\ ~out[c].raised
         /\ \E k \in Nonces :
               SigBytes(out[c].sig) = FromHex(SignHashResult(out[c].who,
                   PyBytes(Sha256(DataBytes(out[c].data))), k, fs).sig.v))
        => out[c].value

\* C7: the salt_path of a sign_hash record is a path the object's salt was
\* read from or written to when the object was constructed.
C7_SaltPathIsOrigin ==
    \A c \in Callers :
        (out[c].op = "sign_hash" /\ ~out[c].raised)
        => out[c].salt_path \in out[c].who.origin

\* C8: once _get_or_create_salt has created and returned a salt, no later
\* call draws random bytes again or fails in the lookup, and every later call
\* returns the created value.
C8_SaltStable ==
    made.val # 0 =>
        \A c \in Callers :
            /\ pc[c] \notin CreationPcs
            /\ pc[c] = "initialize" => salt[c] = made.val
            /\ pc[c] = "assign" => obj[c].salt = made.val
            /\ Done(c) => ret[c].salt = made.val
            /\ pc[c] = "failed" => hist[c].src # "none"

\* C8 witness: a later call has read back the salt an earlier call created.
C8_ReadBack ==
    /\ made.val # 0
    /\ pc[Main] = "initialize"
    /\ ~hist[Main].gen
    /\ salt[Main] = made.val

\* C9: a call that starts with no salt file and cannot write the primary path
\* goes on to the backup path (it fails only if that write fails too); once
\* the salt is created there, the backup file holds it, and every later call
\* returns it from the backup path, draws no random bytes and opens no file
\* for writing.
C9_Fallback ==
    /\ \A c \in Callers :
          (hist[c].nofile /\ "primary" \in hist[c].failed /\ pc[c] = "failed"
           /\ hist[c].src = "none")
          => "backup" \in hist[c].failed
    /\ (made.path = "backup" /\ made.nofile) =>
          /\ ValidSalt(fs["backup"]) /\ fs["backup"].val = made.val
          /\ ~ValidSalt(fs["primary"])
          /\ \A c \in Callers :
                /\ pc[c] \notin CreationPcs
                /\ pc[c] = "initialize"
                     => (salt[c] = made.val /\ hist[c].src = "backup")
                /\ ~hist[c].gen => hist[c].tried = {}
                /\ Done(c) => ret[c].salt = made.val

\* C9 witness: after a fallback creation, a later call found the salt at the
\* backup path.
C9_FoundAtBackup ==
    /\ made.path = "backup" /\ made.nofile
    /\ pc[Main] = "initialize"
    /\ ~hist[Main].gen
    /\ hist[Main].src = "backup"
    /\ salt[Main] = made.val

\* C10: when the primary write and the backup write of one call have both
\* failed, the call has ended with an exception: it is at no further step,
\* nothing was constructed or returned, and the cache holds what it held
\* when the call began.
C10_BothWritesFail ==
    \A c \in Callers :
        {"primary", "backup"} \subseteq hist[c].failed
        => /\ pc[c] = "failed"
           /\ hist[c].src = "none"
           /\ ~hist[c].built
           /\ obj[c] = NoObj
           /\ ret[c] = NoObj
           /\ registry[ProcOf(c)] = hist[c].cache0

\* C10 witness: a call whose two writes failed.
C10_Failed ==
    /\ {"primary", "backup"} \subseteq hist[Main].failed
    /\ hist[Main].gen
    /\ pc[Main] = "failed"

\* The fingerprint _get_hardware_id returned when object o was constructed.
FingerprintOf(o) == GetHardwareId(o.camera_id, env).v

\* The objects constructed so far that the state still knows: those cached,
\* returned, operated on, or found in the cache by the current call.
KnownObjects ==
    {o \in {registry[p] : p \in Procs} \cup {ret[c] : c \in Callers}
            \cup {hist[c].cache0 : c \in Callers} \cup {out[c].who : c \in Callers} :
        o.initialized}

C12_RoundTrip ==
    \A c \in Callers :
        (/\ out[c].op = "verify"
         /\ out[c].who.initialized
         /\ \E k \in Nonces :
               out[c].sig = SignDataResult(out[c].who, out[c].data, k).sig)
        => (~out[c].raised /\ out[c].value)

\* C12 witness: a signature sign_data returned for a payload has been
\* verified against that payload.
C12_Verified ==
    /\ out[Main].op = "verify"
    /\ out[Main].who.initialized
    /\ out[Main].data \in DataArgs
    /\ out[Main].sig \in {SignDataResult(out[Main].who, out[Main].data, k).sig :
                            k \in Nonces}
    /\ out[Main].value

\* C13: an operation called on an object whose initialized is False raises;
\* it returns nothing.
C13_NotReadyRaises ==
    \A c \in Callers :
        (out[c].op # "none" /\ ~out[c].who.initialized) => out[c].raised

\* C14: the constructor hands over, get_hardware_identity returns and the
\* cache holds initialized objects only, a failed call hands over nothing;
\* and an initialized object stays initialized: the cached object is only
\* ever replaced by an initialized one (until the process ends), and the
\* operations on an object leave it and the cache as they are.
C14_AllOrNothing ==
    /\ [](/\ \A p \in Procs : registry[p] # NoObj => registry[p].initialized
          /\ \A c \in Callers :
                /\ pc[c] = "assign" => obj[c].initialized
                /\ Done(c) => ret[c].initialized
                /\ pc[c] = "failed" => (ret[c] = NoObj /\ obj[c] = NoObj))
    /\ [][/\ \A p \in Procs :
              registry[p].initialized
              => \/ registry'[p].initialized
                 \/ \A c \in Callers : ProcOf(c) = p => pc'[c] = "idle"
          /\ \A c \in Callers :
              (Done(c) /\ pc'[c] = "done")
              => (ret'[c] = ret[c] /\ registry' = registry)]_vars

\* C14 witness: the construction of a replacement failed; the caller got
\* nothing and the cache still holds the initialized object it held.
C14_FailedReplacement ==
    /\ pc[Main] = "failed"
    /\ hist[Main].cache0.initialized
    /\ registry[1] = hist[Main].cache0
    /\ ret[Main] = NoObj

\* C15: every constructed object has a non-empty fingerprint; a construction
\* whose salt lookup returned fails exactly when no source yields an
\* identifier, so a source that yields nothing is skipped while another one
\* does.
C15_FingerprintNotEmpty ==
    /\ \A p \in Procs : registry[p].initialized => FingerprintOf(registry[p]) # <<>>
    /\ \A c \in Callers :
          /\ ret[c].initialized => FingerprintOf(ret[c]) # <<>>
          /\ pc[c] = "assign" => FingerprintOf(obj[c]) # <<>>
          /\ hist[c].built => Identifiers(camera[c], env) # <<>>
          /\ (pc[c] = "failed" /\ hist[c].src # "none")
                => \/ Identifiers(camera[c], env) = <<>>
                   \/ \E p \in Paths :
                         /\ ValidSalt(fs[p])
                         /\ OutOfRange(Sha256(GetHardwareId(camera[c], env).v
                                              \o SaltBytes(fs[p].val)))
          /\ (pc[c] \in {"assign", "return", "done"} /\ hist[c].src # "none")
                => hist[c].built

\* C15 witness: on a host where some source yields nothing and another one
\* does, an object was constructed.
C15_SourceSkipped ==
    /\ env \in PartialEnvs
    /\ Done(Main)
    /\ hist[Main].built
    /\ ret[Main].initialized

\* What an address carries besides the 40 hex digits of the digest: the
\* prefix of lines 182 and 188.
AddressTag(address) == SubSeq(address, 1, 2)

\* C16: the address the SHA-256 path gives an object's public key carries
\* another tag than the address the Keccak-256 path gives it.
C16_TagsDiffer ==
    \A c \in Callers :
        ret[c].initialized
        => AddressTag(GetAddress(ret[c].public_key, [env EXCEPT !.keccak = FALSE]))
           # AddressTag(GetAddress(ret[c].public_key, [env EXCEPT !.keccak = TRUE]))

\* C17: a call that replaced the cached object because its camera id is not
\* that of the cached object has constructed an object with the same salt
\* and with another fingerprint and another key.
C17_ReplacementRekeys ==
    \A c \in Callers :
        LET old == hist[c].cache0
        IN  (/\ Done(c) /\ hist[c].built
             /\ old # NoObj
             /\ camera[c] # old.camera_id)
            => /\ ret[c].salt = old.salt
               /\ FingerprintOf(ret[c]) # FingerprintOf(old)
               /\ ret[c].private_key # old.private_key

\* The camera id strict precedence chooses: the argument, else CAMERA_ID,
\* else that of the cached object (None in the script's fresh process); an
\* empty string counted as given, and counted as not given.
PrecedencePresent(argv, envcam) ==
    IF argv # NoneId THEN argv
    ELSE IF envcam # NoneId THEN envcam ELSE NoObj.camera_id
PrecedenceTruthy(argv, envcam) ==
    IF Truthy(argv) THEN argv
    ELSE IF Truthy(envcam) THEN envcam ELSE NoObj.camera_id

\* C18: when export_key.py has written the export file, the record is that
\* of the object constructed with the camera id chosen by precedence, an
\* empty argument or an empty CAMERA_ID counted either as given or as not
\* given.
C18_ExportPrecedence ==
    script.phase = "exported" =>
        \E choice \in {PrecedencePresent(script.argv, script.envcam),
                        PrecedenceTruthy(script.argv, script.envcam)} :
            /\ keyfile.cameraId = choice
            /\ keyfile = ExportData(Initialized(ret[Main].id, choice, ret[Main].salt,
                                                env, ret[Main].origin))

\* The bytes of a salt file.
FileBytes(f) == IF f.exists /\ f.len = SaltLen THEN SaltBytes(f.val) ELSE <<>>

\* C20: no salt file holds the private key of an object, and the export file
\* changes only in a step of an export: the write of export_key.py or the
\* application's _export_device_key; construction, signing and the accessors
\* leave it alone.
C20_KeyOnlyExported ==
    /\ [](\A p \in Paths, c \in Callers :
             /\ ret[c].initialized => FileBytes(fs[p]) # ret[c].private_key
             /\ obj[c].initialized => FileBytes(fs[p]) # obj[c].private_key)
    /\ [][keyfile' # keyfile => (ExportWrite(Main) \/ AppExport(Main))]_vars

\* C20 witness: the export file holds the private key after an export, and
\* the process has signed since.
C20_Exported ==
    /\ keyfile.written
    /\ keyfile.privateKey = <<0>> \o Mark("x") \o Hex(ret[Main].private_key)
    /\ out[Main].op = "sign_hash"

\* C19: a step of sign_data, sign_hash or verify_signature on a Ready object
\* leaves the object, the cache, the salt files and the results of the other
\* threads unchanged, and its result is determined by the object, the
\* arguments and the nonce alone; so the results of interleaved calls are
\* those of the calls in any sequential order.
C19_ReadOnly ==
    [][\A c \in Callers :
          (/\ out'[c] # out[c]
           /\ out'[c].op \in {"sign_data", "sign_hash", "verify"}
           /\ ret[c].initialized)
          => /\ UNCHANGED <<fs, env, registry, ret, keyfile>>
             /\ \A d \in Callers \ {c} : out'[d] = out[d]
             /\ out'[c].who = ret[c]
             /\ \/ \E k \in Nonces :
                      out'[c] = SignDataResult(ret[c], out'[c].data, k)
                \/ \E k \in Nonces :
                      out'[c] = SignHashResult(ret[c], out'[c].data, k, fs)
                \/ out'[c] = VerifyResult(ret[c], out'[c].data, out'[c].sig)]_vars

\* C19 witness: one thread has signed and another has verified that
\* signature on the same cached object, which is as it was constructed.
C19_Interleaved ==
    /\ registry[1].initialized
    /\ \A c \in ThreadCallers : ret[c] = registry[1]
    /\ out[<<1, 1>>].op = "sign_data"
    /\ out[<<1, 2>>].op = "verify"
    /\ out[<<1, 2>>].sig = out[<<1, 1>>].sig
    /\ out[<<1, 2>>].value

\* A file the process can read and that holds exactly 32 bytes.
Readable(f) == ValidSalt(f) /\ f.rd = "ok"

\* C21: the lookup returns the primary file's bytes whenever that file is
\* readable and holds 32 bytes, whatever the backup file is; it goes on to
\* the backup path when the primary file is absent, unreadable for lack of
\* permission or not 32 bytes long, and returns the backup file's bytes when
\* that file is readable and holds 32 bytes; it creates a salt only when
\* neither path gave one.
C21_LookupPriority ==
    \A c \in Callers :
        /\ pc[c] \in {"read_backup", "urandom"} => ~Readable(fs["primary"])
        /\ pc[c] = "urandom" => ~Readable(fs["backup"])
        /\ (pc[c] = "initialize" /\ ~hist[c].gen /\ hist[c].src = "primary")
              => (Readable(fs["primary"]) /\ salt[c] = fs["primary"].val)
        /\ (pc[c] = "initialize" /\ ~hist[c].gen /\ hist[c].src = "backup")
              => /\ ~Readable(fs["primary"])
                 /\ Readable(fs["backup"]) /\ salt[c] = fs["backup"].val
        /\ (pc[c] = "failed" /\ env.ecdsa /\ ~hist[c].gen /\ hist[c].src = "none")
              => (fs["primary"].exists /\ fs["primary"].rd = "ioerr")

\* C21 witness: the primary file holds 32 bytes the process may not read,
\* and the lookup has returned the backup file's bytes.
C21_DeniedThenBackup ==
    /\ pc[Main] = "initialize" /\ ~hist[Main].gen
    /\ ValidSalt(fs["primary"]) /\ fs["primary"].rd = "denied"
    /\ hist[Main].src = "backup"
    /\ salt[Main] = fs["backup"].val

\* C22: a file that is not 32 bytes long is never returned and never makes
\* the lookup fail: every salt the lookup returns is a 32-byte value, and the
\* lookup fails only by an I/O error of the primary read or by a failed
\* backup write.
C22_CorruptSkipped ==
    \A c \in Callers :
        /\ pc[c] = "initialize" => salt[c] \in Salts
        /\ pc[c] = "assign" => obj[c].salt \in Salts
        /\ ret[c].initialized => ret[c].salt \in Salts
        /\ (pc[c] = "failed" /\ env.ecdsa /\ hist[c].src = "none")
              => \/ ~hist[c].gen /\ fs["primary"].rd = "ioerr"
                 \/ "backup" \in hist[c].failed

\* C22 witness: both files exist, are readable and are not 32 bytes long;
\* the lookup has skipped both and drawn a new salt.
C22_BothCorrupt ==
    /\ pc[Main] = "open_primary" /\ hist[Main].gen
    /\ \A p \in Paths : fs[p].exists /\ fs[p].rd = "ok" /\ fs[p].len # SaltLen
    /\ salt[Main] \in Salts

\* The identifier of each kind that is present, or the empty string: the
\* camera id when it is a non-empty string, the CPU serial, the address of
\* the first present interface of wlan0, eth0, and the machine id.
Kinds == <<"camera", "serial", "mac", "machine">>
IdentifierOfKind(kind, cam, e) ==
    CASE kind = "camera" ->
             IF cam \in {NoneId, ""} THEN <<>> ELSE Mark("camera:") \o CamBytes(cam)
      [] kind = "serial" ->
             IF e.serial THEN Mark("serial:") \o HostValue("serial") ELSE <<>>
      [] kind = "mac" ->
             IF e.wlan0 THEN Mark("mac:") \o HostValue("wlan0")
             ELSE IF e.eth0 THEN Mark("mac:") \o HostValue("eth0") ELSE <<>>
      [] kind = "machine" ->
             IF e.machine THEN Mark("machine:") \o HostValue("machine") ELSE <<>>

\* The present identifiers in the order of Kinds with "|" between them.
RECURSIVE JoinedFrom(_, _, _)
JoinedFrom(i, cam, e) ==
    IF i > Len(Kinds) THEN <<>>
    ELSE LET head == IdentifierOfKind(Kinds[i], cam, e)
             rest == JoinedFrom(i + 1, cam, e)
         IN  IF head = <<>> THEN rest
             ELSE IF rest = <<>> THEN head
             ELSE head \o Mark("|") \o rest

\* C23: the fingerprint every constructed object's key was derived from is
\* the present identifiers, one of each kind at most, joined with "|" in the
\* order camera, serial, mac, machine, the mac being that of wlan0 when wlan0
\* is present and that of eth0 otherwise.
C23_FingerprintOrder ==
    \A o \in KnownObjects \cup {x \in {obj[c] : c \in Callers} : x.initialized} :
        o.private_key = Sha256(JoinedFrom(1, o.camera_id, env) \o SaltBytes(o.salt))

\* C23 witness: an object constructed with a camera id on a host without
\* wlan0: its fingerprint has all four kinds, the mac being that of eth0.
C23_Eth0Used ==
    /\ ~env.wlan0 /\ env.eth0 /\ env.serial /\ env.machine
    /\ Done(Main)
    /\ ret[Main].camera_id = "camA"
    /\ ret[Main].private_key =
          Sha256(Mark("camera:") \o CamBytes("camA") \o Mark("|")
                 \o Mark("serial:") \o HostValue("serial") \o Mark("|")
                 \o Mark("mac:") \o HostValue("eth0") \o Mark("|")
                 \o Mark("machine:") \o HostValue("machine")
                 \o SaltBytes(ret[Main].salt))

\* The hash whose digest an address holds.
AlgorithmOf(address) ==
    LET digest == FromHex(SubSeq(address, 3, Len(address)))
    IN  IF SubSeq(digest, 1, 1) = Mark("keccak") THEN "keccak"
        ELSE IF SubSeq(digest, 1, 1) = Mark("sha256") THEN "sha256" ELSE "other"

SeedOf(cam, saltv) == Sha256(GetHardwareId(cam, env).v \o SaltBytes(saltv))

\* C25: the private key of every constructed object is the digest of its
\* fingerprint and salt itself, and that digest is inside the scalar range;
\* a construction that reaches the key derivation with a digest outside the
\* range fails and leaves no object behind.
C25_OutOfRangeFails ==
    /\ [](\A o \in KnownObjects \cup {x \in {obj[c] : c \in Callers} : x.initialized} :
            /\ o.private_key = SeedOf(o.camera_id, o.salt)
            /\ ~OutOfRange(o.private_key))
    /\ [][\A c \in Callers :
            (/\ pc[c] = "initialize" /\ pc'[c] # "initialize"
             /\ GetHardwareId(camera[c], env).ok
             /\ OutOfRange(SeedOf(camera[c], salt[c])))
            => /\ pc'[c] = "failed"
               /\ ret'[c] = NoObj
               /\ obj'[c] = obj[c]
               /\ registry' = registry]_vars

\* C25 witness: a construction failed although a salt was obtained and the
\* fingerprint is not empty, the digest of the two being outside the range.
C25_DigestRejected ==
    /\ pc[Main] = "failed"
    /\ hist[Main].src # "none"
    /\ Identifiers(camera[Main], env) # <<>>
    /\ ~hist[Main].built
    /\ \E p \in Paths : /\ ValidSalt(fs[p])
                        /\ OutOfRange(SeedOf(camera[Main], fs[p].val))

\* C26: when _get_or_create_salt has returned a salt it created, every file
\* the call wrote the salt bytes into is restricted to owner read/write.
C26_WrittenFilesRestricted ==
    \A c \in Callers :
        (pc[c] = "initialize" /\ hist[c].gen)
        => \A p \in hist[c].stored : fs[p].mode = "0600"

\* C27: export_key.py ends with status 1 when the construction of line 26 or
\* the write of the export file failed, and it reports success only with the
\* record of the identity it got written to the export file.  (A failure of
\* the probing call of line 19 is dropped by lines 23-24; line 26 decides.)
C27_ExitStatus ==
    /\ [](/\ script.phase = "exported"
              => /\ pc[Main] = "done" /\ ret[Main].initialized
                 /\ script.dest = "ok"
                 /\ keyfile = ExportData(ret[Main])
          /\ script.phase = "exit1"
              => (pc[Main] = "failed" \/ script.dest = "denied"))
    /\ [][(script.phase = "final" /\ script'.phase \notin {"final", "none"})
            => IF pc[Main] = "failed" \/ script.dest = "denied"
               THEN script'.phase = "exit1" /\ keyfile' = keyfile
               ELSE /\ script'.phase = "exported"
                    /\ keyfile' = ExportData(ret[Main])]_vars

\* C27 witness: the construction of line 26 failed, the script ended with
\* status 1 and no export file was written.
C27_ExitOne ==
    /\ script.phase = "exit1"
    /\ pc[Main] = "failed"
    /\ script.dest = "ok"
    /\ ~keyfile.written

\* C28: after a series of calls of one process that all succeeded, the cached
\* object's camera_id is the last camera_id argument of the series that was
\* not None (None when there was none) and it is the object returned; while a
\* call with camera_id None runs on a filled cache, the cache keeps the object
\* the call found.
C28_LastNonNoneWins ==
    /\ (Done(Main) /\ hist[Main].allok)
          => /\ registry[1].initialized
             /\ registry[1].camera_id = hist[Main].lastcam
             /\ ret[Main] = registry[1]
    /\ (pc[Main] # "idle" /\ camera[Main] = NoneId /\ hist[Main].cache0 # NoObj)
          => registry[1] = hist[Main].cache0

\* C28 witness: after a successful call with "camA", a call with None
\* returned and the cache still holds the object of camera "camA".
C28_NoneKeepsCamA ==
    /\ Done(Main) /\ hist[Main].allok
    /\ camera[Main] = NoneId
    /\ hist[Main].lastcam = "camA"
    /\ hist[Main].cache0.initialized
    /\ registry[1] = hist[Main].cache0
    /\ registry[1].camera_id = "camA"

\* C29: a get_hardware_identity call whose construction failed returned
\* nothing to its caller and the cache holds what it held when the call
\* began; the step in which the construction fails leaves the cache alone.
C29_FailureKeepsCache ==
    /\ [](\A c \in Callers :
            pc[c] = "failed"
            => /\ ret[c] = NoObj
               /\ registry[ProcOf(c)] = hist[c].cache0
               /\ ~hist[c].built)
    /\ [][\A c \in Callers :
            (pc[c] # "failed" /\ pc'[c] = "failed") => registry' = registry]_vars

\* C29 witness: the first construction of a process failed inside
\* _initialize, after the salt was obtained, and the cache is still empty.
C29_FirstConstructionFailed ==
    /\ pc[Main] = "failed"
    /\ hist[Main].cache0 = NoObj
    /\ hist[Main].src # "none"
    /\ registry[1] = NoObj
    /\ ret[Main] = NoObj

\* C30: when _get_or_create_salt of the only running process has returned,
\* the returned bytes are the whole content of the primary or of the backup
\* file -- of the file behind the return statement taken -- and when the call
\* wrote both files, both hold the returned bytes.
C30_ReturnedSaltStored ==
    \A c \in Callers :
        pc[c] = "initialize"
        => /\ hist[c].src \in Paths
           /\ ValidSalt(fs[hist[c].src])
           /\ fs[hist[c].src].val = salt[c]
           /\ hist[c].gen => hist[c].src \in hist[c].stored
           /\ \A p \in hist[c].stored :
                 ValidSalt(fs[p]) /\ fs[p].val = salt[c]

\* C30 witness: a call created a salt, wrote it to the primary file, could
\* not restrict that file, wrote it to the backup file and returned it.
C30_BothWritten ==
    /\ pc[Main] = "initialize"
    /\ hist[Main].gen
    /\ hist[Main].stored = Paths
    /\ fs["primary"].val = salt[Main]
    /\ fs["backup"].val = salt[Main]

====
